---- MODULE Spec2Model ----
(***************************************************************************)
(* Research_and_Analyst: the error wrapper ResearchAnalystException        *)
(* (exceptions/custom_exception.py) and the ApiKeyManager / ModelLoader    *)
(* pair (utils/model_loader.py), as a state machine driven by a caller.    *)
(*                                                                         *)
(* Python values are modelled as follows.                                  *)
(*  - A str whose case matters to the code (an environment variable name,  *)
(*    a credential name, the value of LLM_PROVIDER, a key of config.llm)   *)
(*    is a sequence of one-character strings, so that str.upper() is a     *)
(*    computation on characters.                                           *)
(*  - Any other str is a TLA+ string; None is the value None below.        *)
(*  - An f-string is a record [fmt, key, args]: the literal text with its  *)
(*    placeholders, the case-sensitive value and the plain values put in.  *)
(*  - Configuration scalars (temperature, max_tokens) are kept as their    *)
(*    YAML literals.                                                       *)
(*  - A traceback object is the non-empty sequence of its frames; tb_next  *)
(*    of a traceback is its tail, and the traceback None is <<>>.          *)
(*  - An object is a record [cls, attr, ret, message, tb]: its class, how  *)
(*    it exposes an attribute named exc_info ("absent", "noncallable",     *)
(*    "callable"), what calling that attribute returns, its str() and, for *)
(*    an exception, its __traceback__.                                     *)
(*  - custom_exception.py lines 21-29 hold a string literal between the    *)
(*    if-branch and its elif; it is read as the comment it is meant to be, *)
(*    so lines 15-33 are one if / elif / else chain.                       *)
(***************************************************************************)
EXTENDS Integers, Sequences, FiniteSets

VARIABLES
    env,       \* os.environ restricted to the four variables the code reads
    handled,   \* sys.exc_info() in the caller's context: the error it is handling
    loader,    \* the ModelLoader object: "absent", "ready" or "failed"
    api_keys,  \* ApiKeyManager.api_keys of the loader
    config,    \* ModelLoader.config of the loader
    call,      \* the last call the caller made: [op, name, message, details]
    raised,    \* the exception that call raised to the caller, or NoExc
    returned,  \* the value that call returned (meaningful per call.op)
    log        \* the records that call wrote to the logger, in order

vars == <<env, handled, loader, api_keys, config, call, raised, returned, log>>

----------------------------------------------------------------------------
(* Bounds and input sets *)

\* Longest traceback chain an input error carries.
MaxFrames == 3

None == "<None>"
NoName == <<>>

----------------------------------------------------------------------------
(* str.upper() *)

LowerCase == <<"a","b","c","d","e","f","g","h","i","j","k","l","m",
               "n","o","p","q","r","s","t","u","v","w","x","y","z">>
UpperCase == <<"A","B","C","D","E","F","G","H","I","J","K","L","M",
               "N","O","P","Q","R","S","T","U","V","W","X","Y","Z">>

UpperChar(c) ==
    IF \E i \in 1..26 : LowerCase[i] = c
    THEN UpperCase[CHOOSE i \in 1..26 : LowerCase[i] = c]
    ELSE c

LowerChar(c) ==
    IF \E i \in 1..26 : UpperCase[i] = c
    THEN LowerCase[CHOOSE i \in 1..26 : UpperCase[i] = c]
    ELSE c

RECURSIVE upper(_)
upper(s) == IF s = <<>> THEN <<>> ELSE <<UpperChar(Head(s))>> \o upper(Tail(s))

\* Input generators: the other spellings of a name a caller may pass.
RECURSIVE lower(_)
lower(s) == IF s = <<>> THEN <<>> ELSE <<LowerChar(Head(s))>> \o lower(Tail(s))

capitalize(s) == IF s = <<>> THEN <<>> ELSE <<UpperChar(Head(s))>> \o lower(Tail(s))

----------------------------------------------------------------------------
(* Names *)

OPENAI_API_KEY == <<"O","P","E","N","A","I","_","A","P","I","_","K","E","Y">>
GOOGLE_API_KEY == <<"G","O","O","G","L","E","_","A","P","I","_","K","E","Y">>
GROQ_API_KEY   == <<"G","R","O","Q","_","A","P","I","_","K","E","Y">>
AZURE_API_KEY  == <<"A","Z","U","R","E","_","A","P","I","_","K","E","Y">>
LLM_PROVIDER   == <<"L","L","M","_","P","R","O","V","I","D","E","R">>

ManagedKeys == {OPENAI_API_KEY, GOOGLE_API_KEY, GROQ_API_KEY}

s_openai == <<"o","p","e","n","a","i">>
s_Google == <<"G","o","o","g","l","e">>
s_groq   == <<"g","r","o","q">>
s_azure  == <<"a","z","u","r","e">>

K_OPENAI == <<"O","P","E","N","A","I">>
K_GOOGLE == <<"G","O","O","G","L","E">>
K_GROQ   == <<"G","R","O","Q">>

\* Values the environment may give LLM_PROVIDER, and the names a caller may
\* ask ApiKeyManager.get for.
ProviderValues == {s_openai, s_Google, s_groq, s_azure}
KeyArgs ==
    UNION {{k, lower(k)} : k \in ManagedKeys \cup {AZURE_API_KEY}}
    \cup {capitalize(GOOGLE_API_KEY)}
\* The credentials a deployment sets (GROQ_API_KEY stays unset), the value
\* each has, and the value GOOGLE_API_KEY has after a rotation.
SettableKeys == {OPENAI_API_KEY, GOOGLE_API_KEY}
CredentialValue(k) ==
    IF k = OPENAI_API_KEY THEN "sk-test"
    ELSE IF k = GOOGLE_API_KEY THEN "g-key" ELSE "gsk-key"
RotatedValue(k) ==
    IF k = OPENAI_API_KEY THEN "sk-rotated"
    ELSE IF k = GOOGLE_API_KEY THEN "g-rotated" ELSE "gsk-rotated"

----------------------------------------------------------------------------
(* f-strings, frames, errors *)

Msg(fmt, key, args) == [fmt |-> fmt, key |-> key, args |-> args]
Text(fmt) == Msg(fmt, NoName, <<>>)
NoMsg == Text("")

\* str(v) as an f-string placeholder renders it: None prints as "None".
Fmt(v) == IF v = None THEN "None" ELSE v

Frame(file, line) == [file |-> file, line |-> line]

\* sys.exc_info(): (type, value, traceback); the value is kept as its str().
ExcInfo(etype, evalue, tb) == <<etype, evalue, tb>>
NoInfo == ExcInfo("None", NoMsg, <<>>)

Object(cls, attr, ret, message, tb) ==
    [cls |-> cls, attr |-> attr, ret |-> ret, message |-> message, tb |-> tb]
NoneObject == Object("NoneType", "absent", <<>>, NoMsg, <<>>)
NoExc == NoneObject
Str(message) == Object("str", "absent", <<>>, message, <<>>)
Error(cls, message, tb) == Object(cls, "absent", <<>>, message, tb)

\* The module sys passed as error_details: its exc_info() returns the error
\* being handled where the constructor runs.
Sys(info) == Object("module", "callable", info, NoMsg, <<>>)

ExceptionClasses ==
    {"Exception", "ValueError", "KeyError", "TypeError", "RuntimeError",
     "AttributeError", "UnboundLocalError", "FileNotFoundError",
     "ValidationError", "ResearchAnalystException"}
BaseExceptionClasses == ExceptionClasses \cup {"KeyboardInterrupt", "SystemExit"}

ModelLoaderFile == "model_loader.py"
CustomExceptionFile == "custom_exception.py"

----------------------------------------------------------------------------
(* ResearchAnalystException (exceptions/custom_exception.py) *)

isinstance_BaseException(o) == o.cls \in BaseExceptionClasses
isinstance_Exception(o) == o.cls \in ExceptionClasses
hasattr_exc_info(o) == o.attr # "absent"

\* str(o): the text of a str or of an exception's message.
PyStr(o) == o.message

\* Lines 8-11: an exception passed as the message is replaced by its str();
\* anything else is kept and rendered by __str__'s f-string.
NormalizeMessage(error_message) ==
    IF isinstance_BaseException(error_message)
    THEN PyStr(error_message)
    ELSE error_message.message

\* ResolveExcInfo with the isinstance test tried before the hasattr test.
ResolveExcInfo_ExceptionFirst(error_details, ambient) ==
    IF error_details.cls = "NoneType" THEN ambient
    ELSE IF isinstance_Exception(error_details)
         THEN ExcInfo(error_details.cls, PyStr(error_details), error_details.tb)
    ELSE IF hasattr_exc_info(error_details) THEN error_details.ret
    ELSE ambient

\* Lines 14-33: where (exc_type, exc_value, exc_tb) come from.  ambient is
\* sys.exc_info() at the place the constructor runs.
ResolveExcInfo(error_details, ambient) ==
    IF error_details.cls = "NoneType" THEN ambient
    ELSE IF hasattr_exc_info(error_details) THEN error_details.ret
    ELSE IF isinstance_Exception(error_details)
         THEN ExcInfo(error_details.cls, PyStr(error_details), error_details.tb)
         ELSE ambient

\* Line 20 calls error_details.exc_info() and unpacks three values: the class
\* of the error that statement raises, or "" when it completes.
ResolveRaises(error_details) ==
    IF error_details.cls # "NoneType" /\ hasattr_exc_info(error_details)
    THEN IF error_details.attr = "noncallable" THEN "TypeError"
         ELSE IF Len(error_details.ret) # 3 THEN "ValueError"
         ELSE ""
    ELSE ""

\* LastTb without the walk: the traceback handle itself.
LastTb_NoWalk(last_tb) == last_tb

\* Lines 36-38: follow tb_next while there is one.
RECURSIVE LastTb(_)
LastTb(last_tb) ==
    IF last_tb # <<>> /\ Tail(last_tb) # <<>>
    THEN LastTb(Tail(last_tb))
    ELSE last_tb

\* Lines 40-41.
UnknownFile == "<unknown file>"
FileName(last_tb) == IF last_tb # <<>> THEN Head(last_tb).file ELSE UnknownFile
LineNo(last_tb) == IF last_tb # <<>> THEN Head(last_tb).line ELSE -1

\* A str built by traceback.format_exception or a literal: its first line,
\* one entry per frame, and the closing "Type: value" line.
TextBlock(head, frames, etype, evalue) ==
    [head |-> head, frames |-> frames, etype |-> etype, evalue |-> evalue]
EmptyText == TextBlock("", <<>>, "", NoMsg)
NoTraceback == TextBlock("<no traceback available>", <<>>, "", NoMsg)
format_exception(exc_type, exc_value, exc_tb) ==
    TextBlock("Traceback (most recent call last):", exc_tb, exc_type, exc_value)

\* TracebackStr with an empty string where no traceback is available.
TracebackStr_Empty(info) ==
    IF info[1] # "None" /\ info[3] # <<>>
    THEN format_exception(info[1], info[2], info[3])
    ELSE EmptyText

\* Lines 45-48.
TracebackStr(info) ==
    IF info[1] # "None" /\ info[3] # <<>>
    THEN format_exception(info[1], info[2], info[3])
    ELSE NoTraceback

\* Lines 54-59: __str__.
ResearchAnalystException_str(file_name, lineno, error_message, traceback_str) ==
    LET base == [file |-> file_name, line |-> lineno, message |-> error_message]
    IN  IF traceback_str # EmptyText
        THEN [base |-> base, sep |-> "\nTraceback:\n", traceback |-> traceback_str]
        ELSE [base |-> base, sep |-> "", traceback |-> EmptyText]

\* Lines 6-50: __init__.  The result is the new exception, or the error the
\* constructor itself raised.
ResearchAnalystException(error_message, error_details, ambient) ==
    IF ResolveRaises(error_details) # ""
    THEN Error(ResolveRaises(error_details),
               Text("exc_info() is not a callable returning three values"),
               <<Frame(CustomExceptionFile, 20)>>)
    ELSE LET info == ResolveExcInfo(error_details, ambient)
             last_tb == LastTb(info[3])
             tbs == TracebackStr(info)
             norm_msg == NormalizeMessage(error_message)
         IN  [cls |-> "ResearchAnalystException",
              file_name |-> FileName(last_tb),
              lineno |-> LineNo(last_tb),
              error_message |-> norm_msg,
              traceback_str |-> tbs,
              args |-> ResearchAnalystException_str(
                           FileName(last_tb), LineNo(last_tb), norm_msg, tbs),
              tb |-> <<>>]

\* raise e from the statement at file:line, leaving the function.
Raise(e, file, line) == [e EXCEPT !.tb = <<Frame(file, line)>>]

IsRAE(e) == e.cls = "ResearchAnalystException"

----------------------------------------------------------------------------
(* Configuration, environment, logger *)

EmptyDict == [k \in {} |-> ""]

\* dict.get(k, default)
dict_get(d, k, default) == IF k \in DOMAIN d THEN d[k] ELSE default

\* os.getenv(name, default)
getenv(name, default) == IF name \in DOMAIN env THEN env[name] ELSE default

SetVar(e, name, value) ==
    [k \in DOMAIN e \cup {name} |-> IF k = name THEN value ELSE e[k]]
DelVar(e, name) == [k \in DOMAIN e \ {name} |-> e[k]]

\* One record of the structured logger: its level and its event text.
Rec(level, event) == [level |-> level, event |-> event]

\* What load_config() may return: the configurations a deployment may hold.
\*  "full"    every field present; the GROQ block names both optional fields
\*  "partial" embedding_model lacks model_name; OPENAI names an unsupported
\*            provider; the GOOGLE block's provider field is "groq"
\*  "empty"   neither embedding_model nor llm
ConfigNames == {"full", "partial", "empty"}
ConfigNamed(name) ==
    IF name = "full" THEN
        [embedding_model |-> [model_name |-> "text-embedding-004"],
         llm |-> [k \in {K_OPENAI, K_GOOGLE, K_GROQ} |->
                    IF k = K_OPENAI
                    THEN [provider |-> "openai", model_name |-> "gpt-4o-mini",
                          temperature |-> "0.2"]
                    ELSE IF k = K_GOOGLE
                    THEN [provider |-> "google", model_name |-> "gemini-2.0-flash",
                          max_tokens |-> "2048"]
                    ELSE [provider |-> "groq", model_name |-> "llama-3.1-8b",
                          temperature |-> "0", max_tokens |-> "512"]]]
    ELSE IF name = "partial" THEN
        [embedding_model |-> EmptyDict,
         llm |-> [k \in {K_OPENAI, K_GOOGLE} |->
                    IF k = K_OPENAI
                    THEN [provider |-> "unknown-co", model_name |-> "mystery-1"]
                    ELSE [provider |-> "groq", model_name |-> "mixtral-8x7b"]]]
    ELSE EmptyDict

DefaultTemperature == "0.7"
DefaultMaxTokens == "1000"

----------------------------------------------------------------------------
(* ApiKeyManager (utils/model_loader.py lines 14-49) *)

\* Lines 22-27: the three credentials, read from the environment.
ApiKeyManager_api_keys == [k \in ManagedKeys |-> getenv(k, None)]

\* Lines 28-35: one record per credential, in the dict's order.
KeyStatus(keys, k) ==
    IF keys[k] # None /\ keys[k] # ""
    THEN Rec("info", Msg("Loaded API Key for {key}", k, <<>>))
    ELSE Rec("warning", Msg("No API Key found for {key}", k, <<>>))
ApiKeyManager_log(keys) ==
    <<Rec("info", Text("Initializing API Key Manager")),
      KeyStatus(keys, OPENAI_API_KEY),
      KeyStatus(keys, GOOGLE_API_KEY),
      KeyStatus(keys, GROQ_API_KEY)>>

\* get without the upper(): an exact-match lookup.
get_Exact(key) == dict_get(api_keys, key, None)

\* get reading the environment at the time of the call.
get_FromEnv(key) ==
    IF upper(key) \in ManagedKeys THEN getenv(upper(key), None) ELSE None

\* Line 49: self.api_keys.get(key.upper(), None).
get(key) == dict_get(api_keys, upper(key), None)

----------------------------------------------------------------------------
(* ModelLoader (utils/model_loader.py lines 52-167) *)

\* What one public call leaves behind.
Outcome(exc, value, records) == [raised |-> exc, returned |-> value, log |-> records]
NoValue == "<nothing>"
Unbound == "<unbound>"

\* Frames below the calling line, inside a provider library.
LibTb(depth) == [i \in 1..depth |-> Frame("site-packages/provider.py", 200 + i)]

\* A provider constructor either returns the client it built from its
\* keyword arguments or raises from `depth` frames inside the library.
Client(cls, kwargs) == [cls |-> cls, kwargs |-> kwargs]
CtorOutcomes ==
    {[ok |-> TRUE, depth |-> 0]} \cup
    {[ok |-> FALSE, depth |-> d] : d \in 0..(MaxFrames - 1)}
CtorError(line, depth) ==
    Error("ValidationError", Text("client construction failed"),
          <<Frame(ModelLoaderFile, line)>> \o LibTb(depth))

\* The f-string of an except clause reads model_name (lines 100 and 166):
\* an UnboundLocalError when the try block failed before assigning it.
UnboundLocal(line) ==
    Error("UnboundLocalError",
          Msg("cannot access local variable '{}' where it is not associated with a value",
              NoName, <<"model_name">>),
          <<Frame(ModelLoaderFile, line)>>)

\* sys.exc_info() inside `except Exception as e`.
Handling(e) ==
    ExcInfo(e.cls, IF IsRAE(e) THEN e.error_message ELSE e.message, e.tb)

\* Lines 62-68: __init__.  loaded is what load_config() did.
ModelLoader_init(loaded) ==
    LET keys == ApiKeyManager_api_keys
    IN  IF loaded.ok
        THEN [raised |-> NoExc, api_keys |-> keys, config |-> ConfigNamed(loaded.name),
              log |-> ApiKeyManager_log(keys) \o
                      <<Rec("info", Text("YAML configuration loaded successfully"))>>]
        ELSE LET e == Error("FileNotFoundError", Text("config.yaml"),
                            <<Frame(ModelLoaderFile, 64),
                              Frame("config_loader.py", 12)>>)
             IN  [raised |-> Raise(ResearchAnalystException(
                                       Str(Text("Failed to initialize ModelLoader")),
                                       Sys(Handling(e)), Handling(e)),
                                   ModelLoaderFile, 68),
                  api_keys |-> EmptyDict, config |-> EmptyDict,
                  log |-> ApiKeyManager_log(keys) \o
                          <<Rec("error", Text("Error initializing ModelLoader"))>>]

\* Lines 81-97: the try block of load_embeddings; what it raised, the local
\* model_name, the records written and the value to return.
load_embeddings_try(ctor) ==
    IF "embedding_model" \notin DOMAIN config
    THEN [exc |-> Error("KeyError", Text("'embedding_model'"),
                        <<Frame(ModelLoaderFile, 82)>>),
          model_name |-> Unbound, log |-> <<>>, value |-> NoValue]
    ELSE IF "model_name" \notin DOMAIN config["embedding_model"]
    THEN [exc |-> Error("KeyError", Text("'model_name'"),
                        <<Frame(ModelLoaderFile, 82)>>),
          model_name |-> Unbound, log |-> <<>>, value |-> NoValue]
    ELSE LET model_name == config["embedding_model"]["model_name"]
             loading == <<Rec("info", Msg("Loading embedding model: {}",
                                          NoName, <<Fmt(model_name)>>))>>
         IN  IF ~ctor.ok
             THEN [exc |-> CtorError(91, ctor.depth), model_name |-> model_name,
                   log |-> loading, value |-> NoValue]
             ELSE [exc |-> NoExc, model_name |-> model_name,
                   log |-> loading \o
                           <<Rec("info", Msg("Embedding model {} loaded successfully",
                                             NoName, <<Fmt(model_name)>>))>>,
                   value |-> Client("GoogleGenerativeAIEmbeddings",
                                    [model |-> model_name,
                                     api_key |-> get(GOOGLE_API_KEY)])]

\* Lines 99-101: the except clause of load_embeddings.
load_embeddings_except(body) ==
    IF body.model_name = Unbound
    THEN Outcome(UnboundLocal(100), NoValue, body.log)
    ELSE Outcome(
           Raise(ResearchAnalystException(
                     Str(Msg("Failed to load embedding model {}", NoName,
                             <<Fmt(body.model_name)>>)),
                     Sys(Handling(body.exc)), Handling(body.exc)),
                 ModelLoaderFile, 101),
           NoValue,
           body.log \o <<Rec("error", Msg("Error loading embedding model {}", NoName,
                                          <<Fmt(body.model_name)>>))>>)

\* Lines 74-101: load_embeddings.
load_embeddings(ctor) ==
    LET body == load_embeddings_try(ctor)
    IN  IF body.exc.cls = "NoneType"
        THEN Outcome(NoExc, body.value, body.log)
        ELSE load_embeddings_except(body)

\* Dispatch with ChatOpenAI as the fallback for any other provider.
Dispatch_Fallback(provider, model_name, temperature, max_tokens, ctor) ==
    IF ctor.ok
    THEN IF provider = "google"
         THEN Client("ChatGoogleGenerativeAI",
                     [model |-> model_name, temperature |-> temperature,
                      api_key |-> dict_get(api_keys, GOOGLE_API_KEY, None),
                      max_output_tokens |-> max_tokens])
         ELSE IF provider = "groq"
         THEN Client("ChatGroq",
                     [model |-> model_name, temperature |-> temperature,
                      api_key |-> dict_get(api_keys, GROQ_API_KEY, None)])
         ELSE Client("ChatOpenAI",
                     [model |-> model_name, temperature |-> temperature,
                      api_key |-> dict_get(api_keys, OPENAI_API_KEY, None)])
    ELSE CtorError(137, ctor.depth)

\* Lines 136-160: the dispatch on the block's provider field.  The result is
\* the client built, or the error raised.
Dispatch(provider, model_name, temperature, max_tokens, ctor) ==
    IF provider = "openai"
    THEN IF ctor.ok
         THEN Client("ChatOpenAI",
                     [model |-> model_name, temperature |-> temperature,
                      api_key |-> get(OPENAI_API_KEY)])
         ELSE CtorError(137, ctor.depth)
    ELSE IF provider = "google"
    THEN IF ctor.ok
         THEN Client("ChatGoogleGenerativeAI",
                     [model |-> model_name, temperature |-> temperature,
                      api_key |-> get(GOOGLE_API_KEY),
                      max_output_tokens |-> max_tokens])
         ELSE CtorError(144, ctor.depth)
    ELSE IF provider = "groq"
    THEN IF ctor.ok
         THEN Client("ChatGroq",
                     [model |-> model_name, temperature |-> temperature,
                      api_key |-> get(GROQ_API_KEY)])
         ELSE CtorError(152, ctor.depth)
    ELSE Error("ValueError",
               Msg("Unsupported LLM provider {}", NoName, <<Fmt(provider)>>),
               <<Frame(ModelLoaderFile, 160)>>)

\* Lines 120-163: the try block of load_llm.  ambient is sys.exc_info() of
\* the caller, which line 126 reads through sys.
load_llm_try(ambient, ctor) ==
    IF "llm" \notin DOMAIN config
    THEN [exc |-> Error("KeyError", Text("'llm'"), <<Frame(ModelLoaderFile, 121)>>),
          model_name |-> Unbound, log |-> <<>>, value |-> NoValue]
    ELSE
    LET llm_block == config["llm"]
        provider_key == upper(getenv(LLM_PROVIDER, s_openai))
    IN  IF provider_key \notin DOMAIN llm_block
        THEN [exc |-> Raise(ResearchAnalystException(
                                Str(Msg("LLM provider {key} not found in configuration",
                                        provider_key, <<>>)),
                                Sys(ambient), ambient),
                            ModelLoaderFile, 126),
              model_name |-> Unbound,
              log |-> <<Rec("error", Text("LLM provider not found in configuration"))>>,
              value |-> NoValue]
        ELSE
        LET llm_config == llm_block[provider_key]
            provider == dict_get(llm_config, "provider", None)
            model_name == dict_get(llm_config, "model_name", None)
            temperature == dict_get(llm_config, "temperature", DefaultTemperature)
            max_tokens == dict_get(llm_config, "max_tokens", DefaultMaxTokens)
            loading == <<Rec("info",
                             Msg("Loading LLM: {} {} with temperature {} and max_tokens {}",
                                 NoName,
                                 <<Fmt(provider), Fmt(model_name), temperature,
                                   max_tokens>>))>>
            built == Dispatch(provider, model_name, temperature, max_tokens, ctor)
        IN  IF "kwargs" \in DOMAIN built
            THEN [exc |-> NoExc, model_name |-> model_name,
                  log |-> loading \o
                          <<Rec("info", Msg("LLM {} loaded successfully", NoName,
                                            <<Fmt(model_name)>>))>>,
                  value |-> built]
            ELSE [exc |-> built, model_name |-> model_name,
                  log |-> IF built.cls = "ValueError"
                          THEN loading \o
                               <<Rec("error", Text("Unsupported LLM provider"))>>
                          ELSE loading,
                  value |-> NoValue]

\* Lines 165-167: the except clause of load_llm.
load_llm_except(body) ==
    IF body.model_name = Unbound
    THEN Outcome(UnboundLocal(166), NoValue, body.log)
    ELSE Outcome(
           Raise(ResearchAnalystException(
                     Str(Msg("Failed to load LLM {}", NoName, <<Fmt(body.model_name)>>)),
                     Sys(Handling(body.exc)), Handling(body.exc)),
                 ModelLoaderFile, 167),
           NoValue,
           body.log \o <<Rec("error", Msg("Error loading LLM {}", NoName,
                                          <<Fmt(body.model_name)>>))>>)

\* Lines 107-167: load_llm.
load_llm(ambient, ctor) ==
    LET body == load_llm_try(ambient, ctor)
    IN  IF body.exc.cls = "NoneType"
        THEN Outcome(NoExc, body.value, body.log)
        ELSE load_llm_except(body)

----------------------------------------------------------------------------
(* Inputs of the caller *)

\* A traceback of n frames, outermost first.
TbOf(file, base, n) ==
    [i \in 1..n |-> Frame(IF i = 1 THEN file ELSE "helpers.py", base + i)]

\* The error the caller may be handling when it makes a call.
AmbientInfos ==
    {NoInfo} \cup
    {ExcInfo("RuntimeError", Text("ambient failure"), TbOf("app.py", 100, n)) :
        n \in 1..MaxFrames}

\* The error_details a caller may pass to ResearchAnalystException: nothing,
\* the module sys, an error (never raised when n = 0), an error that also has
\* an exc_info() method, a KeyboardInterrupt, a plain object, an object whose
\* exc_info attribute is data (logging.LogRecord), an object whose exc_info()
\* returns two values, one whose exc_info() returns no traceback.
DetailsInputs(info) ==
    {NoneObject, Sys(info)}
    \cup {Error("ValueError", Text("bad value"), TbOf("worker.py", 300, n)) :
            n \in 0..MaxFrames}
    \cup {Object("ValueError", "callable",
                 ExcInfo("KeyError", Text("'k'"), TbOf("other.py", 400, n)),
                 Text("bad value"), TbOf("worker.py", 300, 1)) : n \in 0..2}
    \cup {Object("KeyboardInterrupt", "absent", <<>>, Text("interrupted"),
                 TbOf("worker.py", 300, 2)),
          Object("object", "absent", <<>>, Text("<object>"), <<>>),
          Object("LogRecord", "noncallable", <<>>, Text("<LogRecord>"), <<>>),
          Object("object", "callable", <<"ValueError", Text("bad value")>>,
                 Text("<object>"), <<>>),
          Object("object", "callable", ExcInfo("ValueError", Text("bad value"), <<>>),
                 Text("<object>"), <<>>)}

\* The error_message passed with details d: a str, or d itself when d is an
\* exception.
MessageInputs(d) ==
    {Str(Text("operation failed")), Str(Text("lookup failed"))} \cup
    (IF isinstance_BaseException(d) THEN {d} ELSE {})

Call(op, name, message, details) ==
    [op |-> op, name |-> name, message |-> message, details |-> details]

----------------------------------------------------------------------------
(* The state machine *)

Init ==
    /\ env = EmptyDict
    /\ handled = NoInfo
    /\ loader = "absent"
    /\ api_keys = EmptyDict
    /\ config = EmptyDict
    /\ call = Call("start", NoName, NoneObject, NoneObject)
    /\ raised = NoExc
    /\ returned = NoValue
    /\ log = <<>>

\* Something other than a call of this code happened: the last call's
\* results are gone.
Forget ==
    /\ call' = Call("idle", NoName, NoneObject, NoneObject)
    /\ raised' = NoExc
    /\ returned' = NoValue
    /\ log' = <<>>

\* The process environment changes (os.environ is shared, mutable state).
SetEnv ==
    /\ \/ \E k \in SettableKeys : env' = SetVar(env, k, CredentialValue(k))
       \/ env' = SetVar(env, GOOGLE_API_KEY, RotatedValue(GOOGLE_API_KEY))
       \/ \E v \in ProviderValues : env' = SetVar(env, LLM_PROVIDER, v)
    /\ Forget
    /\ UNCHANGED <<handled, loader, api_keys, config>>

UnsetEnv ==
    /\ \E k \in DOMAIN env : env' = DelVar(env, k)
    /\ Forget
    /\ UNCHANGED <<handled, loader, api_keys, config>>

\* The caller enters an except block (an error becomes the handled one) or
\* leaves it.
EnterHandler ==
    /\ handled = NoInfo
    /\ \E info \in AmbientInfos \ {NoInfo} : handled' = info
    /\ Forget
    /\ UNCHANGED <<env, loader, api_keys, config>>

LeaveHandler ==
    /\ handled # NoInfo
    /\ handled' = NoInfo
    /\ Forget
    /\ UNCHANGED <<env, loader, api_keys, config>>

\* ModelLoader()
NewModelLoader ==
    /\ loader = "absent"
    /\ \E loaded \in {[ok |-> TRUE, name |-> n] : n \in ConfigNames}
                     \cup {[ok |-> FALSE, name |-> ""]} :
         LET r == ModelLoader_init(loaded)
         IN  /\ loader' = IF loaded.ok THEN "ready" ELSE "failed"
             /\ api_keys' = r.api_keys
             /\ config' = r.config
             /\ raised' = r.raised
             /\ log' = r.log
    /\ returned' = NoValue
    /\ call' = Call("ModelLoader", NoName, NoneObject, NoneObject)
    /\ UNCHANGED <<env, handled>>

\* loader.api_key_manager.get(key)
Get ==
    /\ loader = "ready"
    /\ \E key \in KeyArgs :
         /\ returned' = get(key)
         /\ call' = Call("get", key, NoneObject, NoneObject)
    /\ raised' = NoExc
    /\ log' = <<>>
    /\ UNCHANGED <<env, handled, loader, api_keys, config>>

\* loader.load_embeddings()
LoadEmbeddings ==
    /\ loader = "ready"
    /\ \E ctor \in CtorOutcomes :
         LET r == load_embeddings(ctor)
         IN  /\ raised' = r.raised
             /\ returned' = r.returned
             /\ log' = r.log
    /\ call' = Call("load_embeddings", NoName, NoneObject, NoneObject)
    /\ UNCHANGED <<env, handled, loader, api_keys, config>>

\* loader.load_llm()
LoadLLM ==
    /\ loader = "ready"
    /\ \E ctor \in CtorOutcomes :
         LET r == load_llm(handled, ctor)
         IN  /\ raised' = r.raised
             /\ returned' = r.returned
             /\ log' = r.log
    /\ call' = Call("load_llm", NoName, NoneObject, NoneObject)
    /\ UNCHANGED <<env, handled, loader, api_keys, config>>

\* ResearchAnalystException(error_message, error_details) built by a caller.
NewException ==
    /\ \E d \in DetailsInputs(handled) : \E m \in MessageInputs(d) :
         LET e == ResearchAnalystException(m, d, handled)
         IN  /\ raised' = IF IsRAE(e) THEN NoExc ELSE e
             /\ returned' = IF IsRAE(e) THEN e ELSE NoValue
             /\ call' = Call("ResearchAnalystException", NoName, m, d)
    /\ log' = <<>>
    /\ UNCHANGED <<env, handled, loader, api_keys, config>>

\* The caller works with a ModelLoader, outside any except block (the error
\* it is handling reaches only the exception of line 126, which line 165
\* catches).
Next ==
    \/ SetEnv
    \/ UnsetEnv
    \/ NewModelLoader
    \/ Get
    \/ LoadEmbeddings
    \/ LoadLLM

Spec == Init /\ [][Next]_vars

\* The caller only builds exceptions.
NextExc ==
    \/ EnterHandler
    \/ LeaveHandler
    \/ NewException

SpecExc == Init /\ [][NextExc]_vars

----------------------------------------------------------------------------
(* Properties *)

Failed == raised.cls # "NoneType"
AfterLoadLLM == call.op = "load_llm"
AfterNewException == call.op = "ResearchAnalystException"

\* The key load_llm selects, as the environment gives it.
SelectedKey == upper(getenv(LLM_PROVIDER, s_openai))
KeyMissing == "llm" \in DOMAIN config /\ SelectedKey \notin DOMAIN config["llm"]
KeyPresent == "llm" \in DOMAIN config /\ SelectedKey \in DOMAIN config["llm"]
SelectedBlock == config["llm"][SelectedKey]
SupportedProviders == {"openai", "google", "groq"}

\* C1: whenever load_llm() ran with upper(LLM_PROVIDER) not a key of
\* config.llm, what it raised to the caller is a ResearchAnalystException
\* whose message is "LLM provider K not found in configuration" with that K.
C1_NotFoundIsWrapped ==
    (AfterLoadLLM /\ KeyMissing) =>
        /\ IsRAE(raised)
        /\ raised.error_message.fmt = "LLM provider {key} not found in configuration"
        /\ raised.error_message.key = SelectedKey

\* An error whose rendered text names the provider p as unsupported.
NamesUnsupported(e, p) ==
    /\ IsRAE(e)
    /\ e.args.traceback.etype = "ValueError"
    /\ e.args.traceback.evalue = Msg("Unsupported LLM provider {}", NoName, <<Fmt(p)>>)
SaysUnsupported(e) ==
    /\ IsRAE(e)
    /\ e.args.traceback.evalue.fmt = "Unsupported LLM provider {}"

\* C2: whenever load_llm() ran on a selected block whose provider field is
\* none of "openai", "google", "groq", it raised a ResearchAnalystException
\* whose text names that provider as unsupported; and whenever it ran with
\* the provider key missing, it raised an error that does not say so.
C2_UnsupportedIsDistinct ==
    AfterLoadLLM =>
        /\ (KeyPresent /\ dict_get(SelectedBlock, "provider", None) \notin SupportedProviders)
              => NamesUnsupported(raised, dict_get(SelectedBlock, "provider", None))
        /\ KeyMissing => (Failed /\ ~SaysUnsupported(raised))

C2_Witness ==
    /\ AfterLoadLLM
    /\ KeyPresent
    /\ SelectedBlock.provider = "unknown-co"
    /\ NamesUnsupported(raised, "unknown-co")
    /\ raised.lineno = 160

\* C3: whenever ModelLoader(), load_embeddings() or load_llm() failed, an
\* error record was logged and what reached the caller is a
\* ResearchAnalystException.
C3_FailuresLoggedAndWrapped ==
    (call.op \in {"ModelLoader", "load_embeddings", "load_llm"} /\ Failed) =>
        /\ IsRAE(raised)
        /\ \E i \in DOMAIN log : log[i].level = "error"

\* C4: building a ResearchAnalystException never raises, whatever the
\* message and the details are.
C4_ConstructionNeverRaises ==
    AfterNewException => ~Failed

\* The (type, value, traceback) the priority order of C5 names for details d
\* when the caller is handling ambient.
ClaimedSource(d, ambient) ==
    IF d.cls = "NoneType" THEN ambient
    ELSE IF d.attr = "callable" THEN d.ret
    ELSE IF d.cls \in ExceptionClasses THEN <<d.cls, d.message, d.tb>>
    ELSE ambient
ClaimedChain == ClaimedSource(call.details, handled)[3]

\* What an exception built from (type, value, traceback) shows of it.
Shows(e, info) ==
    /\ e.traceback_str =
          IF info[1] # "None" /\ info[3] # <<>>
          THEN TextBlock("Traceback (most recent call last):", info[3], info[1], info[2])
          ELSE TextBlock("<no traceback available>", <<>>, "", NoMsg)
    /\ info[3] # <<>> =>
          /\ e.file_name = info[3][Len(info[3])].file
          /\ e.lineno = info[3][Len(info[3])].line
    /\ info[3] = <<>> => e.lineno = -1

C7_SentinelAndBlock ==
    (AfterNewException /\ ~Failed) =>
        /\ returned.args.base = [file |-> returned.file_name,
                                 line |-> returned.lineno,
                                 message |-> returned.error_message]
        /\ returned.args.sep = "\nTraceback:\n"
        /\ returned.args.traceback = returned.traceback_str
        /\ returned.args.traceback.head # ""
        /\ ClaimedChain = <<>> =>
              /\ returned.file_name = "<unknown file>"
              /\ returned.lineno = -1
              /\ returned.traceback_str.head = "<no traceback available>"

C7_Witness ==
    /\ AfterNewException
    /\ ~Failed
    /\ call.details.cls = "ValueError"
    /\ call.details.attr = "absent"
    /\ call.details.tb = <<>>
    /\ handled # NoInfo
    /\ returned.lineno = -1
    /\ returned.args.traceback.head = "<no traceback available>"

\* The constructor and the credential each provider string names.
ClientOf(provider) ==
    IF provider = "openai" THEN "ChatOpenAI"
    ELSE IF provider = "google" THEN "ChatGoogleGenerativeAI" ELSE "ChatGroq"
CredentialOf(provider) ==
    IF provider = "openai" THEN OPENAI_API_KEY
    ELSE IF provider = "google" THEN GOOGLE_API_KEY ELSE GROQ_API_KEY

\* C8: whenever load_llm() succeeded, the client it returned is the one the
\* selected block's provider field names, built from the block's model_name,
\* its temperature (0.7 when absent), its max_tokens (1000 when absent) and
\* that provider's credential.
C8_ConstructorReceivesAll ==
    (AfterLoadLLM /\ ~Failed) =>
        /\ KeyPresent
        /\ returned.cls = ClientOf(SelectedBlock.provider)
        /\ returned.kwargs.model = SelectedBlock.model_name
        /\ returned.kwargs.temperature = dict_get(SelectedBlock, "temperature", "0.7")
        /\ returned.kwargs.api_key = api_keys[CredentialOf(SelectedBlock.provider)]
        /\ \E k \in DOMAIN returned.kwargs \ {"model", "temperature", "api_key"} :
              returned.kwargs[k] = dict_get(SelectedBlock, "max_tokens", "1000")

\* C9: get(n) returns what get(upper(n)) returns, raises nothing, and
\* returns None for a name that is not a managed credential and for a
\* credential the environment did not hold when the loader was built.
C9_GetCaseInsensitive ==
    /\ (call.op = "ModelLoader" /\ loader = "ready") =>
          \A k \in ManagedKeys : k \notin DOMAIN env => api_keys[k] = None
    /\ call.op = "get" =>
          /\ ~Failed
          /\ returned = get(upper(call.name))
          /\ upper(call.name) \notin ManagedKeys => returned = None
          /\ (upper(call.name) \in ManagedKeys /\ api_keys[upper(call.name)] = None)
                => returned = None

C9_Witness ==
    /\ call.op = "get"
    /\ call.name = lower(GOOGLE_API_KEY)
    /\ returned = "g-key"

\* C10: once the loader is built, no step changes its credential map or its
\* configuration, and get returns what the credential map held when the
\* loader was built, whatever the environment holds now.
C10_MapsReadOnly ==
    [][loader = "ready" =>
          /\ api_keys' = api_keys
          /\ config' = config
          /\ call'.op = "get" =>
                returned' = dict_get(api_keys, upper(call'.name), None)]_vars

C10_Witness ==
    /\ call.op = "get"
    /\ call.name = GOOGLE_API_KEY
    /\ returned = "g-key"
    /\ GOOGLE_API_KEY \in DOMAIN env
    /\ env[GOOGLE_API_KEY] = "g-rotated"

====
